---- MODULE Spec2Model ----
(***************************************************************************)
(* Model of benchapps.py (PyCABeM): the result-directory preparation       *)
(* (preparePath), the generic evaluation driver (evalGeneric), the measure *)
(* dispatch (evalAlgorithm) and the completion callbacks (aggLevs) that    *)
(* append rows to the accumulation files.                                  *)
(*                                                                         *)
(* Strings are sequences of one-character strings, indexes returned by the *)
(* string helpers are 0-based as in Python (-1 = not found).               *)
(***************************************************************************)
EXTENDS Integers, Sequences, FiniteSets, TLC

VARIABLES
  clusters,   \* entries of results/<alg>/clusters/: name -> [isdir, files]
  dirs,       \* existing measure sub-directories (logsbase paths)
  files,      \* existing accumulation files: path -> sequence of rows
  ldpath,     \* os.environ['LD_LIBRARY_PATH'], a sequence of entries
  pc,         \* position of the evaluation driver: idle / scan / submit
  call,       \* arguments and locals of the evalGeneric call in progress
  todo,       \* candidates of the glob of line 132 not yet enumerated
  clsname,    \* the local clsname of evalGeneric (Unbound until assigned)
  jobs,       \* the local list jobs of evalGeneric
  isub,       \* number of jobs of the list already passed to execute
  execlog,    \* jobs passed to execpool.execute by the current call, in order
  pool,       \* jobs accepted by the pool whose callback has not run yet
  outcome,    \* how the last finished call ended (returned / exception)
  warns,      \* warnings printed by the current call
  cb,         \* the last completion callback: job id and captured output
  accepted,   \* ids of the jobs whose callback parsed its output and wrote a row
  nruns,      \* number of evalAlgorithm calls made so far
  snap,       \* accumulation files as they were when the current call began
  tidied,     \* paths deleted by the tidy steps of the current call
  backups,    \* backups performed by backupPath, in order
  preplog,    \* preparePath calls and result writes, in order
  running,    \* completion callbacks that have opened their file and not returned
  finished    \* ids of the jobs whose callback wrote its row, in order of writing

vars == <<clusters, dirs, files, ldpath, pc, call, todo, clsname, jobs, isub,
          execlog, pool, outcome, warns, cb, accepted, nruns, snap, tidied,
          backups, preplog, running, finished>>

evalvars == <<dirs, files, ldpath, pc, call, todo, clsname, jobs, isub,
              execlog, pool, outcome, warns, cb, accepted, nruns, snap, tidied,
              running, finished>>

prepvars == <<backups, preplog>>

-----------------------------------------------------------------------------
(* Bounds *)

MaxRuns == 1
MaxReruns == 3
MaxPrep == 3

-----------------------------------------------------------------------------
(* Module constants of benchapps.py *)

RESDIR == <<"r","e","s","u","l","t","s","/">>
CLSDIR == <<"c","l","u","s","t","e","r","s","/">>
MODDIR == <<"m","o","d","/">>
NMIDIR == <<"n","m","i","/">>
EXTERR == <<".","e","r","r">>
SEPINST == "^"
SEPPARS == "!"
SEPPATHID == "#"
PATHID_FILE == "f"

-----------------------------------------------------------------------------
(* Python string and os.path primitives used by the code *)

SetMax(S) == CHOOSE x \in S : \A y \in S : y <= x
SetMin(S) == CHOOSE x \in S : \A y \in S : x <= y

\* s[a:b] for 0 <= a, 0 <= b
PySlice(s, a, b) ==
  LET e == IF b > Len(s) THEN Len(s) ELSE b
  IN IF a >= e THEN <<>> ELSE SubSeq(s, a + 1, e)

\* s[a:]
PyFrom(s, a) == PySlice(s, a, Len(s))

\* s.startswith(p)
StartsWith(s, p) == Len(p) <= Len(s) /\ SubSeq(s, 1, Len(p)) = p

\* s.endswith(p)
EndsWith(s, p) == Len(p) <= Len(s) /\ SubSeq(s, Len(s) - Len(p) + 1, Len(s)) = p

\* s.rfind(c) for a character c
Rfind(s, c) ==
  LET I == {i \in 1..Len(s) : s[i] = c}
  IN IF I = {} THEN -1 ELSE SetMax(I) - 1

\* s.find(sub)
Find(s, sub) ==
  LET I == {i \in 0..(Len(s) - Len(sub)) : PySlice(s, i, i + Len(sub)) = sub}
  IN IF I = {} THEN -1 ELSE SetMin(I)

\* s.replace(old, new), old non-empty
RECURSIVE Replace(_, _, _)
Replace(s, old, new) ==
  IF Len(s) < Len(old) THEN s
  ELSE IF StartsWith(s, old) THEN new \o Replace(PyFrom(s, Len(old)), old, new)
  ELSE <<s[1]>> \o Replace(Tail(s), old, new)

\* sep.join((a, b))
Join2(sep, a, b) == a \o sep \o b

\* sep.join((a, b, c))
Join3(sep, a, b, c) == a \o sep \o b \o sep \o c

\* sep.join((a, b, c, d))
Join4(sep, a, b, c, d) == a \o sep \o b \o sep \o c \o sep \o d

\* head with its trailing slashes removed, unless it consists of slashes only
RECURSIVE RstripSlash(_)
RstripSlash(s) ==
  IF s = <<>> \/ s[Len(s)] # "/" THEN s ELSE RstripSlash(SubSeq(s, 1, Len(s) - 1))

\* os.path.split(p) (posixpath): <<head, tail>>
split(p) ==
  LET i == Rfind(p, "/") + 1
      head == PySlice(p, 0, i)
      tail == PyFrom(p, i)
  IN <<IF RstripSlash(head) = <<>> THEN head ELSE RstripSlash(head), tail>>

\* os.path.splitext(p) (genericpath._splitext): <<root, ext>>; the extension
\* starts at the last dot of the last path component, leading dots of the
\* component are not an extension
splitext(p) ==
  LET sepIndex == Rfind(p, "/")
      dotIndex == Rfind(p, ".")
  IN IF dotIndex > sepIndex
        /\ \E k \in (sepIndex + 1)..(dotIndex - 1) : p[k + 1] # "."
     THEN <<PySlice(p, 0, dotIndex), PyFrom(p, dotIndex)>>
     ELSE <<p, <<>>>>

IsDigit(c) == c \in {"0","1","2","3","4","5","6","7","8","9"}

DigitVal(c) ==
  CASE c = "0" -> 0 [] c = "1" -> 1 [] c = "2" -> 2 [] c = "3" -> 3
    [] c = "4" -> 4 [] c = "5" -> 5 [] c = "6" -> 6 [] c = "7" -> 7
    [] c = "8" -> 8 [] c = "9" -> 9

IsSpace(c) == c \in {" ", "\n", "\t"}

\* s.strip()
RECURSIVE Strip(_)
Strip(s) ==
  IF s = <<>> THEN s
  ELSE IF IsSpace(s[1]) THEN Strip(Tail(s))
  ELSE IF IsSpace(s[Len(s)]) THEN Strip(SubSeq(s, 1, Len(s) - 1))
  ELSE s

AllDigits(s) == \A i \in 1..Len(s) : IsDigit(s[i])

\* int(s) does not raise ValueError: optional blanks, optional sign, digits
IsInt(s) ==
  LET t == Strip(s)
      u == IF t # <<>> /\ t[1] \in {"+", "-"} THEN Tail(t) ELSE t
  IN u # <<>> /\ AllDigits(u)


\* A float value v = (-1)^neg * mant / 10^scale, normalised so that equal
\* numbers have equal representations; ok = FALSE stands for "no value"
NoVal == [ok |-> FALSE, neg |-> FALSE, mant |-> 0, scale |-> 0]

RECURSIVE DigitsVal(_)
DigitsVal(s) ==
  IF s = <<>> THEN 0
  ELSE DigitsVal(SubSeq(s, 1, Len(s) - 1)) * 10 + DigitVal(s[Len(s)])

RECURSIVE Normal(_, _)
Normal(m, k) == IF k > 0 /\ m % 10 = 0 THEN Normal(m \div 10, k - 1) ELSE <<m, k>>

\* float(s): NoVal where Python raises ValueError.  Blanks are stripped, an
\* optional sign is followed by digits with at most one dot and at least one
\* digit (exponents, inf and nan are outside the modelled outputs)
float(s) ==
  LET t == Strip(s)
      neg == t # <<>> /\ t[1] = "-"
      u == IF t # <<>> /\ t[1] \in {"+", "-"} THEN Tail(t) ELSE t
      d == Rfind(u, ".")
      ip == IF d = -1 THEN u ELSE PySlice(u, 0, d)
      fp == IF d = -1 THEN <<>> ELSE PyFrom(u, d + 1)
      n == Normal(DigitsVal(ip \o fp), Len(fp))
  IN IF AllDigits(ip) /\ AllDigits(fp) /\ (ip \o fp) # <<>>
     THEN [ok |-> TRUE, neg |-> neg, mant |-> n[1], scale |-> n[2]]
     ELSE NoVal

\* benchutils.parseFloat(text)[0]: the parsed number or None
parseFloat(text) == float(text)

-----------------------------------------------------------------------------
(* Names used by the scenarios *)

Str_net1K == <<"n","e","t","1","K">>
Str_algoX == <<"a","l","g","o","X">>
Str_mod == <<"m","o","d">>
Str_nmi == <<"n","m","i">>
Str_nmi_s == <<"n","m","i","_","s">>
Str_cnl == <<".","c","n","l">>
Str_l0 == <<"l","0">>

\* the result file <group>_l0.cnl written by an algorithm into its group
LevelFile(g) == [name |-> g \o <<"_">> \o Str_l0 \o Str_cnl, isdir |-> FALSE]

\* a result file whose name does not repeat the group name
BareFile == [name |-> <<"l","1">> \o Str_cnl, isdir |-> FALSE]

\* the auxiliary sub-directory extra/ left by OSLOM
ExtraDir == [name |-> <<"e","x","t","r","a">>, isdir |-> TRUE]

Group(g) == [isdir |-> TRUE, files |-> {LevelFile(g)}]
StrayFile == [isdir |-> FALSE, files |-> {}]

\* Layout(N, S, B): groups N with one level file each, stray files S and
\* groups B holding two result files and an extra/ sub-directory
Layout(N, S, B) ==
  [n \in N \cup S \cup B |->
     IF n \in S THEN StrayFile
     ELSE IF n \in B THEN [isdir |-> TRUE, files |-> {LevelFile(n), BareFile, ExtraDir}]
     ELSE Group(n)]

G_plain == Str_net1K
G_sh1 == Str_net1K \o <<".","1">>
G_sh2 == Str_net1K \o <<".","2">>
G_alg == Str_net1K \o <<"_">> \o Str_algoX
G_sh1alg == Str_net1K \o <<".","1","_">> \o Str_algoX
G_p2 == Str_net1K \o <<"#","2">>
G_p3 == Str_net1K \o <<"#","3">>
G_sh1p2 == Str_net1K \o <<".","1","#","2">>
G_sh2p2 == Str_net1K \o <<".","2","#","2">>
G_inst == Str_net1K \o <<"^","1">>
G_instp2 == Str_net1K \o <<"^","1","#","2">>
G_other == Str_net1K \o <<"2">>
G_log == Str_net1K \o <<".","l","o","g">>

Layouts ==
  { Layout({G_plain, G_sh1}, {}, {}),
    Layout({G_alg, G_sh1alg}, {}, {}),
    Layout({G_sh1, G_sh2}, {}, {}),
    Layout({G_plain, G_p2, G_p3}, {}, {}),
    Layout({G_sh1p2, G_sh2p2, G_instp2}, {}, {}),
    Layout({G_other, G_inst}, {G_log}, {}),
    Layout({}, {}, {}),
    Layout({}, {G_log}, {}),
    Layout({}, {}, {G_plain}) }

-----------------------------------------------------------------------------
(* evalGeneric: classification of one candidate group (lines 136-197) *)

\* pathidSkips without the check for an unexpected path-id (lines 143-160)
pathidSkips_lax(cn, pathid) == pathid # <<>> /\ ~EndsWith(cn, pathid)

\* lines 139-160: the path-id filter skips the candidate
pathidSkips(cn, pathid) ==
  IF pathid # <<>> THEN ~EndsWith(cn, pathid)
  ELSE LET icnpid == Rfind(cn, "#")
       IN IF icnpid # -1 /\ icnpid + 1 < Len(cn)
          THEN LET i2 == IF cn[icnpid + 2] = PATHID_FILE THEN icnpid + 1 ELSE icnpid
               IN IsInt(PyFrom(cn, i2 + 1))
          ELSE FALSE

\* lines 143-157: the warning about a malformed path-id is printed
pathidWarns(cn, pathid) ==
  /\ pathid = <<>>
  /\ LET icnpid == Rfind(cn, "#")
     IN /\ icnpid # -1 /\ icnpid + 1 < Len(cn)
        /\ LET i2 == IF cn[icnpid + 2] = PATHID_FILE THEN icnpid + 1 ELSE icnpid
           IN ~IsInt(PyFrom(cn, i2 + 1))

\* instanceSkips without the filter of lines 164-165
instanceSkips_never(cn, tcapLen) == FALSE

\* lines 163-165: the instance filter skips the candidate
instanceSkips(cn, tcapLen) == Len(cn) > tcapLen /\ cn[tcapLen + 1] = SEPINST

\* lines 161, 168-169: the text between the last dot and the path-id
rawShuffle(cn, pathid) ==
  LET icnpid == Len(cn) - Len(pathid)
      ish == Rfind(PySlice(cn, 0, icnpid), ".") + 1
  IN IF ish # 0 THEN PySlice(cn, ish, icnpid) ELSE <<>>

\* lines 171-179: the validated shuffling index
shuffleOf(cn, pathid) ==
  LET sh == rawShuffle(cn, pathid)
  IN IF sh # <<>> /\ ~IsInt(sh) THEN <<>> ELSE sh

\* the path yielded by the glob of line 132 for the entry cn
clsbaseOf(algname, cn) == RESDIR \o algname \o <<"/">> \o CLSDIR \o cn

\* line 183
logsbaseOf(clsbase, measdir) == Replace(clsbase, CLSDIR, measdir)

\* taskoutpOf that keeps the shuffle suffix (line 191 without its condition)
taskoutpOf_keepShuffle(logsbase, shuffle, pathid, evalname) ==
  Join2(<<".">>, logsbase, evalname)

\* lines 191-195
taskoutpOf(logsbase, shuffle, pathid, evalname) ==
  LET t1 == IF shuffle # <<>> THEN splitext(logsbase)[1] ELSE logsbase
      t2 == IF shuffle # <<>> /\ pathid # <<>> THEN t1 \o pathid ELSE t1
  IN Join2(<<".">>, t2, evalname)

\* line 128
rcpoutpOf(algname, evalname) ==
  RESDIR \o algname \o <<"/">> \o evalname \o <<".","r","c","p">>

\* lines 205-220 and the Job built by the evalfile callback (lines 308-311,
\* 368-370, 406-408) for the result file fname of the group cn
jobOf(c, cn, fname, idx) ==
  LET clsbase == clsbaseOf(c.algname, cn)
      cfile == clsbase \o <<"/">> \o fname
      shuffle == shuffleOf(cn, c.pathid)
      logsbase == logsbaseOf(clsbase, c.measdir)
      jb0 == splitext(split(cfile)[2])[1]
      found == Find(jb0, cn)
      jscorr == IF found = -1 THEN 0 ELSE found
      jbasename == IF found = -1 THEN Join2(<<"_">>, cn, jb0) ELSE jb0
      capt0 == PyFrom(jbasename, jscorr + Len(cn) + 1)
      jobcapt == IF shuffle # <<>> THEN Join2(<<"_">>, shuffle, capt0) ELSE capt0
  IN [id |-> <<c.run, idx>>,
      name |-> Join3(<<"_">>, c.evalname, cn, c.algname),
      task |-> c.task,
      cfile |-> cfile,
      taskoutp |-> taskoutpOf(logsbase, shuffle, c.pathid, c.evalname),
      jobsuff |-> jobcapt,
      meas |-> c.evalname,
      stderr |-> logsbase \o <<"/">> \o jbasename \o EXTERR]

\* the orders in which a glob can yield the elements of S
Orders(S) ==
  {s \in [1..Cardinality(S) -> S] : \A i, j \in 1..Cardinality(S) : i # j => s[i] # s[j]}

-----------------------------------------------------------------------------
(* evalAlgorithm / evalGeneric: entry, validation and set-up (lines 93-130,
   234-247, 438-445) *)

Measures == {Str_mod, Str_nmi, Str_nmi_s}

\* lines 438-443: the measure directory and the tidy flag passed to evalGeneric
measdirOf(measure) == IF measure = Str_mod THEN MODDIR ELSE NMIDIR

\* tidyOf with the tidy=False of line 443 left out
tidyOf_always(measure) == TRUE

tidyOf(measure) == measure # Str_nmi_s

\* line 114
taskcaptOf(basefile) == splitext(split(basefile)[2])[1]

\* precondition without the assertion of line 116
precondition_noShuffleCheck(poolok, algname, basefile, measure, pathid) ==
  IF pathid # <<>> /\ pathid[1] # SEPPATHID THEN "AssertionError"
  ELSE IF measure \notin Measures THEN "ValueError"
  ELSE IF ~(poolok /\ basefile # <<>> /\ measure # <<>> /\ algname # <<>>)
    THEN "AssertionError"
  ELSE "none"

\* The exception raised by the checks of lines 246, 438-445, 111, 112 and
\* 114-116, in the order the code makes them; "none" when all of them pass
precondition(poolok, algname, basefile, measure, pathid) ==
  IF pathid # <<>> /\ pathid[1] # SEPPATHID THEN "AssertionError"
  ELSE IF measure \notin Measures THEN "ValueError"
  ELSE IF ~(poolok /\ basefile # <<>> /\ measure # <<>> /\ algname # <<>>)
    THEN "AssertionError"
  ELSE IF ~(taskcaptOf(basefile) # <<>> /\ splitext(taskcaptOf(basefile))[2] = <<>>)
    THEN "AssertionError"
  ELSE "none"

EmptyFn == [p \in {} |-> <<>>]
Unbound == [bound |-> FALSE, v |-> <<>>]
NoCb == [id |-> <<0, 0>>, out |-> <<>>]
NoCall ==
  [poolok |-> FALSE, evalname |-> <<>>, algname |-> <<>>, basefile |-> <<>>,
   measdir |-> <<>>, pathid |-> <<>>, tidy |-> FALSE, taskcapt |-> <<>>,
   task |-> <<>>, rcpoutp |-> <<>>, run |-> 0, clean |-> TRUE]

\* the entries matched by the glob of line 132: escapePathWildcards makes
\* taskcapt literal, '*' matches any rest of the name
candidates(taskcapt) == {n \in DOMAIN clusters : StartsWith(n, taskcapt)}

evalAlgorithm(poolok, algname, basefile, measure, pathid) ==
  /\ pc = "idle"
  /\ LET exc == precondition(poolok, algname, basefile, measure, pathid)
         taskcapt == taskcaptOf(basefile)
     IN /\ call' = [poolok |-> poolok, evalname |-> measure, algname |-> algname,
                    basefile |-> basefile, measdir |-> measdirOf(measure),
                    pathid |-> pathid, tidy |-> tidyOf(measure),
                    taskcapt |-> taskcapt,
                    task |-> Join4(<<"_">>, measure, taskcapt, pathid, algname),
                    rcpoutp |-> rcpoutpOf(algname, measure),
                    run |-> nruns + 1, clean |-> pool = {}]
        /\ todo' = IF exc = "none" THEN candidates(taskcapt) ELSE {}
        /\ pc' = IF exc # "none" THEN "idle"
                 ELSE IF candidates(taskcapt) = {} THEN "submit" ELSE "scan"
        /\ outcome' = IF exc = "none" THEN "running" ELSE exc
  /\ nruns' = nruns + 1
  /\ jobs' = <<>>
  /\ isub' = 0
  /\ execlog' = <<>>
  /\ warns' = {}
  /\ clsname' = Unbound
  /\ snap' = files
  /\ tidied' = {}
  /\ UNCHANGED <<clusters, dirs, files, ldpath, pool, cb, accepted, backups, preplog,
                 running, finished>>

-----------------------------------------------------------------------------
(* evalGeneric: one iteration of the loop of line 132 *)

\* resultFiles without the directory test of lines 201-202
resultFiles_withDirs(cn) == clusters[cn].files

\* the non-directory entries of the group cn (line 201 skips directories)
resultFiles(cn) == {f \in clusters[cn].files : ~f.isdir}

FnWithout(f, k) == [p \in DOMAIN f \ {k} |-> f[p]]
FnWith(f, k, v) == [p \in DOMAIN f \cup {k} |-> IF p = k THEN v ELSE f[p]]

\* lines 185-188: dirs after the tidy step on logsbase
dirsAfterTidy(d, logsbase, tidy) ==
  IF tidy \/ logsbase \notin DOMAIN d THEN FnWith(d, logsbase, {}) ELSE d

\* the tidy step of lines 196-197 left out
filesAfterTidy_keep(f, taskoutp, tidy) == f

\* lines 196-197: files after the tidy step on taskoutp
filesAfterTidy(f, taskoutp, tidy) ==
  IF tidy /\ taskoutp \in DOMAIN f THEN FnWithout(f, taskoutp) ELSE f

\* lines 337-345 of nmiEvaluate: LD_LIBRARY_PATH gets the entry '.'
ldpathAfter(l) == IF \E i \in 1..Len(l) : l[i] = <<".">> THEN l ELSE Append(l, <<".">>)

scanGroup(cn, order) ==
  /\ pc = "scan"
  /\ cn \in todo
  /\ todo' = todo \ {cn}
  /\ pc' = IF todo \ {cn} = {} THEN "submit" ELSE "scan"
  /\ IF ~clusters[cn].isdir
     THEN UNCHANGED <<clsname, jobs, dirs, files, warns, ldpath, tidied>>
     ELSE
       /\ clsname' = [bound |-> TRUE, v |-> cn]
       /\ IF pathidSkips(cn, call.pathid)
          THEN UNCHANGED <<jobs, dirs, files, warns, ldpath, tidied>>
          ELSE IF instanceSkips(cn, Len(call.taskcapt))
          THEN /\ warns' = warns \cup
                    (IF pathidWarns(cn, call.pathid)
                     THEN {[kind |-> "pathid", alg |-> call.algname, what |-> cn]} ELSE {})
               /\ UNCHANGED <<jobs, dirs, files, ldpath, tidied>>
          ELSE
            LET shuffle == shuffleOf(cn, call.pathid)
                logsbase == logsbaseOf(clsbaseOf(call.algname, cn), call.measdir)
                taskoutp == taskoutpOf(logsbase, shuffle, call.pathid, call.evalname)
            IN /\ warns' = warns \cup
                    (IF pathidWarns(cn, call.pathid)
                     THEN {[kind |-> "pathid", alg |-> call.algname, what |-> cn]} ELSE {})
                    \cup
                    (IF rawShuffle(cn, call.pathid) # <<>> /\ shuffle = <<>>
                     THEN {[kind |-> "shuffle", alg |-> call.algname, what |-> cn]} ELSE {})
               /\ dirs' = dirsAfterTidy(dirs, logsbase, call.tidy)
               /\ files' = filesAfterTidy(files, taskoutp, call.tidy)
               /\ tidied' = tidied
                    \cup (IF call.tidy /\ logsbase \in DOMAIN dirs THEN {logsbase} ELSE {})
                    \cup (IF call.tidy /\ taskoutp \in DOMAIN files THEN {taskoutp} ELSE {})
               /\ jobs' = jobs \o [i \in 1..Len(order) |->
                                     jobOf(call, cn, order[i].name, Len(jobs) + i)]
               /\ ldpath' = IF call.evalname = Str_nmi /\ Len(order) > 0
                            THEN ldpathAfter(ldpath) ELSE ldpath
  /\ UNCHANGED <<clusters, call, isub, execlog, pool, outcome, cb, accepted, nruns,
                 snap, backups, preplog, running, finished>>

-----------------------------------------------------------------------------
(* evalGeneric: submission of the built jobs (lines 221-231) *)

\* lines 229-231: the list is empty; the warning reads the local clsname, which
\* is unbound when the loop of line 132 never reached line 136
noJobs ==
  /\ pc = "submit"
  /\ jobs = <<>>
  /\ pc' = "idle"
  /\ IF clsname.bound
     THEN /\ warns' = warns \cup
                {[kind |-> "nojobs", alg |-> call.algname, what |-> clsname.v]}
          /\ outcome' = "returned"
     ELSE /\ warns' = warns
          /\ outcome' = "UnboundLocalError"
  /\ UNCHANGED <<clusters, dirs, files, ldpath, call, todo, clsname, jobs, isub,
                 execlog, pool, cb, accepted, nruns, snap, tidied, backups, preplog,
                 running, finished>>

\* the directory part of a path
dirOf(p) == split(p)[1]

\* submitNext that leaves the loop when execute raised
submitNext_abort(ok, n, total) == IF ~ok \/ n = total THEN "idle" ELSE "submit"

\* lines 223-228: where the loop stands after the n-th of total jobs was passed
\* to execute; a failure (ok = FALSE) is caught and the loop goes on
submitNext(ok, n, total) == IF n = total THEN "idle" ELSE "submit"

\* submitJob that passes each job to execute as soon as it is built, inside
\* the loop of line 132, instead of after it
submitJob_inLoop(ok) ==
  /\ pc \in {"scan", "submit"}
  /\ isub < Len(jobs)
  /\ LET job == jobs[isub + 1]
     IN /\ execlog' = Append(execlog, job.id)
        /\ IF ok
           THEN /\ pool' = pool \cup {job}
                /\ dirs' = IF dirOf(job.stderr) \in DOMAIN dirs
                           THEN [dirs EXCEPT ![dirOf(job.stderr)] = @ \cup {job.stderr}]
                           ELSE dirs
                /\ warns' = warns
           ELSE /\ warns' = warns \cup
                      {[kind |-> "submit", alg |-> call.algname, what |-> job.name]}
                /\ UNCHANGED <<pool, dirs>>
  /\ isub' = isub + 1
  /\ pc' = IF pc = "scan" THEN "scan" ELSE submitNext(ok, isub + 1, Len(jobs))
  /\ outcome' = IF pc = "submit" /\ submitNext(ok, isub + 1, Len(jobs)) = "idle"
                THEN "returned" ELSE outcome
  /\ UNCHANGED <<clusters, files, ldpath, call, todo, clsname, jobs, cb, accepted,
                 nruns, snap, tidied, backups, preplog, running, finished>>

\* lines 223-228: execpool.execute(job) for the next job of the list; ok = FALSE
\* is a StandardError raised by execute, caught at line 226.  A job the pool
\* accepted gets its stderr file (Job(stderr=logsbase + _EXTERR)).
submitJob(ok) ==
  /\ pc = "submit"
  /\ isub < Len(jobs)
  /\ LET job == jobs[isub + 1]
     IN /\ execlog' = Append(execlog, job.id)
        /\ IF ok
           THEN /\ pool' = pool \cup {job}
                /\ dirs' = IF dirOf(job.stderr) \in DOMAIN dirs
                           THEN [dirs EXCEPT ![dirOf(job.stderr)] = @ \cup {job.stderr}]
                           ELSE dirs
                /\ warns' = warns
           ELSE /\ warns' = warns \cup
                      {[kind |-> "submit", alg |-> call.algname, what |-> job.name]}
                /\ UNCHANGED <<pool, dirs>>
  /\ isub' = isub + 1
  /\ pc' = submitNext(ok, isub + 1, Len(jobs))
  /\ outcome' = IF submitNext(ok, isub + 1, Len(jobs)) = "idle" THEN "returned" ELSE outcome
  /\ UNCHANGED <<clusters, files, ldpath, call, todo, clsname, jobs, cb, accepted,
                 nruns, snap, tidied, backups, preplog, running, finished>>

-----------------------------------------------------------------------------
(* The completion callbacks aggLevs (lines 282-305, 351-365, 389-403) *)

\* the outputs a finished evaluation process may have left in its pipe
Out_mod == <<"m","o","d",":"," ","0",".","5">>
Out_num == <<"0",".","5","0","\n">>
Out_bad == <<"m","o","d",":"," ","x">>
Outputs == {Out_mod, Out_num, Out_bad}

targpref == <<"m","o","d",":"," ">>

\* parsedValue that falls back to parsing the whole output when the prefix
\* 'mod: ' is missing
parsedValue_noPrefixCheck(meas, result) ==
  IF meas = Str_mod /\ StartsWith(result, targpref)
  THEN parseFloat(PyFrom(result, Len(targpref)))
  ELSE float(result)

\* lines 286-288 for mod, lines 353-356 and 391-394 for nmi and nmi_s: the
\* value parsed from the output, NoVal when the output is rejected
parsedValue(meas, result) ==
  IF meas = Str_mod
  THEN IF StartsWith(result, targpref) THEN parseFloat(PyFrom(result, Len(targpref))) ELSE NoVal
  ELSE float(result)

\* the header line of lines 297, 363 and 401 (its first column title)
headerOf(meas) ==
  IF meas = Str_mod THEN <<"#"," ","Q">>
  ELSE IF meas = Str_nmi THEN <<"#"," ","N","M","I">>
  ELSE <<"#"," ","N","M","I","_","S">>

\* lines 295-299, 361-365, 399-403: open for append, header when the size is
\* 0, then the row.  The field run records which call built the writing job.
aggLevsWrite_alwaysHeader(cur, job, val) ==
  cur \o <<[hdr |-> TRUE, val |-> NoVal, capt |-> headerOf(job.meas), run |-> job.id[1]],
           [hdr |-> FALSE, val |-> val, capt |-> job.jobsuff, run |-> job.id[1]]>>

aggLevsWrite(cur, job, val) ==
  IF Len(cur) = 0
  THEN <<[hdr |-> TRUE, val |-> NoVal, capt |-> headerOf(job.meas), run |-> job.id[1]],
         [hdr |-> FALSE, val |-> val, capt |-> job.jobsuff, run |-> job.id[1]]>>
  ELSE Append(cur, [hdr |-> FALSE, val |-> val, capt |-> job.jobsuff, run |-> job.id[1]])

aggLevs(job, result) ==
  /\ job \in pool
  /\ pool' = pool \ {job}
  /\ cb' = [id |-> job.id, out |-> result]
  /\ LET val == parsedValue(job.meas, result)
         cur == IF job.taskoutp \in DOMAIN files THEN files[job.taskoutp] ELSE <<>>
     IN IF ~val.ok
        THEN /\ files' = files
             /\ accepted' = accepted
        ELSE /\ files' = FnWith(files, job.taskoutp, aggLevsWrite(cur, job, val))
             /\ accepted' = accepted \cup {job.id}
  /\ UNCHANGED <<clusters, dirs, ldpath, pc, call, todo, clsname, jobs, isub,
                 execlog, outcome, warns, nruns, snap, tidied, backups, preplog,
                 running, finished>>

-----------------------------------------------------------------------------
(* The completion callbacks step by step, for a pool that runs them
   concurrently: open for append (lines 295, 361, 399), os.path.getsize
   (lines 296, 362, 400), header write and flush (lines 297-298, 363-364,
   401-402), row write at the close of the file (lines 299, 365, 403) *)

headerRow(job) == [hdr |-> TRUE, val |-> NoVal, capt |-> headerOf(job.meas), run |-> job.id[1]]
valueRow(job, val) == [hdr |-> FALSE, val |-> val, capt |-> job.jobsuff, run |-> job.id[1]]

\* lines 284-295: the output is read and parsed; a rejected output ends the
\* callback, otherwise the file is opened for append, which creates it
aggLevsOpen(job, result) ==
  /\ job \in pool
  /\ pool' = pool \ {job}
  /\ cb' = [id |-> job.id, out |-> result]
  /\ LET val == parsedValue(job.meas, result)
     IN IF ~val.ok
        THEN UNCHANGED <<files, running>>
        ELSE /\ files' = IF job.taskoutp \in DOMAIN files THEN files
                         ELSE FnWith(files, job.taskoutp, <<>>)
             /\ running' = running \cup
                  {[job |-> job, val |-> val, stage |-> "opened", empty |-> FALSE]}
  /\ UNCHANGED <<clusters, dirs, ldpath, pc, call, todo, clsname, jobs, isub,
                 execlog, outcome, warns, accepted, nruns, snap, tidied, backups,
                 preplog, finished>>

\* lines 296, 362, 400: os.path.getsize(taskoutp) is 0
getsizeSees(f, taskoutp) == Len(f[taskoutp]) = 0

aggLevsGetsize(r) ==
  /\ r \in running
  /\ r.stage = "opened"
  /\ r.job.taskoutp \in DOMAIN files
  /\ running' = (running \ {r}) \cup
       {[r EXCEPT !.stage = "checked", !.empty = getsizeSees(files, r.job.taskoutp)]}
  /\ UNCHANGED <<clusters, dirs, files, ldpath, pc, call, todo, clsname, jobs, isub,
                 execlog, pool, outcome, warns, cb, accepted, nruns, snap, tidied,
                 backups, preplog, finished>>

\* lines 297-298, 363-364, 401-402: the header is written and flushed
aggLevsHeader(r) ==
  /\ r \in running
  /\ r.stage = "checked" /\ r.empty
  /\ r.job.taskoutp \in DOMAIN files
  /\ files' = [files EXCEPT ![r.job.taskoutp] = Append(@, headerRow(r.job))]
  /\ running' = (running \ {r}) \cup {[r EXCEPT !.stage = "headed"]}
  /\ UNCHANGED <<clusters, dirs, ldpath, pc, call, todo, clsname, jobs, isub,
                 execlog, pool, outcome, warns, cb, accepted, nruns, snap, tidied,
                 backups, preplog, finished>>

\* lines 299, 365, 403: the row reaches the file when the with block closes it
aggLevsRow(r) ==
  /\ r \in running
  /\ r.stage = "headed" \/ (r.stage = "checked" /\ ~r.empty)
  /\ r.job.taskoutp \in DOMAIN files
  /\ files' = [files EXCEPT ![r.job.taskoutp] = Append(@, valueRow(r.job, r.val))]
  /\ running' = running \ {r}
  /\ accepted' = accepted \cup {r.job.id}
  /\ finished' = Append(finished, r.job.id)
  /\ UNCHANGED <<clusters, dirs, ldpath, pc, call, todo, clsname, jobs, isub,
                 execlog, pool, outcome, warns, cb, nruns, snap, tidied,
                 backups, preplog>>

-----------------------------------------------------------------------------
(* The evaluation driver as a state machine *)

Str_cnlfile == Str_net1K \o Str_cnl
Str_shuffled == Str_net1K \o <<".","1">> \o Str_cnl
Str_rcp == <<"r","c","p">>
PathIds == {<<>>, <<"#","2">>}

\* the requests made to evalAlgorithm: <<pool, algname, basefile, measure,
\* pathid>>, every well-formed one and one for each way of being malformed
GoodArgs == {<<TRUE, Str_algoX, Str_cnlfile, m, p>> : m \in Measures, p \in PathIds}
BadArgs ==
  { <<FALSE, Str_algoX, Str_cnlfile, Str_mod, <<>>>>,
    <<TRUE, <<>>, Str_cnlfile, Str_nmi, <<>>>>,
    <<TRUE, Str_algoX, <<>>, Str_mod, <<>>>>,
    <<TRUE, Str_algoX, Str_shuffled, Str_nmi_s, <<>>>>,
    <<TRUE, Str_algoX, Str_cnlfile, Str_rcp, <<>>>>,
    <<TRUE, Str_algoX, Str_cnlfile, <<>>, <<>>>>,
    <<TRUE, Str_algoX, Str_cnlfile, Str_mod, <<"2">>>> }
CallArgs == GoodArgs \cup BadArgs

\* the state of a fresh process over one of the directory layouts L
InitIn(L) ==
  /\ clusters \in L
  /\ dirs = EmptyFn
  /\ files = EmptyFn
  /\ ldpath = <<>>
  /\ pc = "idle"
  /\ call = NoCall
  /\ todo = {}
  /\ clsname = Unbound
  /\ jobs = <<>>
  /\ isub = 0
  /\ execlog = <<>>
  /\ pool = {}
  /\ outcome = "none"
  /\ warns = {}
  /\ cb = NoCb
  /\ accepted = {}
  /\ nruns = 0
  /\ snap = EmptyFn
  /\ tidied = {}
  /\ backups = <<>>
  /\ preplog = <<>>
  /\ running = {}
  /\ finished = <<>>

Init == InitIn(Layouts)

Next ==
  \/ nruns < MaxRuns /\ \E a \in CallArgs : evalAlgorithm(a[1], a[2], a[3], a[4], a[5])
  \/ \E cn \in todo : \E order \in Orders(resultFiles(cn)) : scanGroup(cn, order)
  \/ noJobs
  \/ \E ok \in BOOLEAN : submitJob(ok)
  \/ \E job \in pool, result \in Outputs : aggLevs(job, result)

Spec == Init /\ [][Next]_vars

-----------------------------------------------------------------------------
(* Repeated evaluations of one base file: the group net1K.1/,
   well-formed requests for a tidy measure (mod) and the non-tidy one (nmi_s) *)

RerunArgs ==
  {<<TRUE, Str_algoX, Str_cnlfile, m, p>> : m \in {Str_mod, Str_nmi_s}, p \in PathIds}

InitRerun == InitIn({Layout({G_sh1}, {}, {})})

NextRerun ==
  \/ nruns < MaxReruns /\ \E a \in RerunArgs : evalAlgorithm(a[1], a[2], a[3], a[4], a[5])
  \/ \E cn \in todo : \E order \in Orders(resultFiles(cn)) : scanGroup(cn, order)
  \/ noJobs
  \/ \E ok \in BOOLEAN : submitJob(ok)
  \/ \E job \in pool, result \in Outputs : aggLevs(job, result)

SpecRerun == InitRerun /\ [][NextRerun]_vars

-----------------------------------------------------------------------------
(* The two measures that share the directory nmi/: repeated evaluations of
   the group net1K.1/ by nmi (tidy) and nmi_s (not tidy) *)

NmiArgs ==
  {<<TRUE, Str_algoX, Str_cnlfile, m, p>> : m \in {Str_nmi, Str_nmi_s}, p \in PathIds}

InitNmi == InitIn({Layout({G_sh1}, {}, {})})

NextNmi ==
  \/ nruns < MaxReruns /\ \E a \in NmiArgs : evalAlgorithm(a[1], a[2], a[3], a[4], a[5])
  \/ \E cn \in todo : \E order \in Orders(resultFiles(cn)) : scanGroup(cn, order)
  \/ noJobs
  \/ \E ok \in BOOLEAN : submitJob(ok)
  \/ \E job \in pool, result \in Outputs : aggLevs(job, result)

SpecNmi == InitNmi /\ [][NextNmi]_vars

-----------------------------------------------------------------------------
(* Repeated modularity evaluations of two shuffles that share one
   accumulation file: the groups net1K.1/ and net1K.2/ *)

MaxTidyRuns == 2

\* modularity evaluations of net1K.cnl, without path-id and with '#2'
TidyArgs == {<<TRUE, Str_algoX, Str_cnlfile, Str_mod, p>> : p \in PathIds}

InitTidy == InitIn({Layout({G_sh1, G_sh2}, {}, {})})

NextTidy ==
  \/ nruns < MaxTidyRuns /\ \E a \in TidyArgs : evalAlgorithm(a[1], a[2], a[3], a[4], a[5])
  \/ \E cn \in todo : \E order \in Orders(resultFiles(cn)) : scanGroup(cn, order)
  \/ noJobs
  \/ \E ok \in BOOLEAN : submitJob(ok)
  \/ \E job \in pool : aggLevs(job, Out_mod)

SpecTidy == InitTidy /\ [][NextTidy]_vars

-----------------------------------------------------------------------------
(* Evaluations of two base networks whose names share a prefix: the groups
   net1K/ and net1K2/, modularity requests for net1K.cnl and net1K2.cnl,
   without path-id and with '#2' (which no group carries) *)

MaxBaseRuns == 2

Str_cnlfile2 == G_other \o Str_cnl

BaseArgs ==
  {<<TRUE, Str_algoX, b, Str_mod, p>> : b \in {Str_cnlfile, Str_cnlfile2}, p \in PathIds}

InitBases == InitIn({Layout({G_plain, G_other}, {}, {})})

NextBases ==
  \/ nruns < MaxBaseRuns /\ \E a \in BaseArgs : evalAlgorithm(a[1], a[2], a[3], a[4], a[5])
  \/ \E cn \in todo : \E order \in Orders(resultFiles(cn)) : scanGroup(cn, order)
  \/ noJobs
  \/ \E ok \in BOOLEAN : submitJob(ok)
  \/ \E job \in pool : aggLevs(job, Out_mod)

SpecBases == InitBases /\ [][NextBases]_vars

-----------------------------------------------------------------------------
(* Concurrent completion callbacks: the shuffles net1K.1/ and net1K.2/ share
   one accumulation file; an evaluation is requested when no job is pending *)

CbArgs == {<<TRUE, Str_algoX, Str_cnlfile, Str_mod, p>> : p \in PathIds}

InitCb == InitIn({Layout({G_sh1, G_sh2}, {}, {})})

NextCb ==
  \/ /\ nruns < MaxRuns /\ pool = {} /\ running = {}
     /\ \E a \in CbArgs : evalAlgorithm(a[1], a[2], a[3], a[4], a[5])
  \/ \E cn \in todo : \E order \in Orders(resultFiles(cn)) : scanGroup(cn, order)
  \/ noJobs
  \/ \E ok \in BOOLEAN : submitJob(ok)
  \/ \E job \in pool, result \in Outputs : aggLevsOpen(job, result)
  \/ \E r \in running : aggLevsGetsize(r)
  \/ \E r \in running : aggLevsHeader(r)
  \/ \E r \in running : aggLevsRow(r)

SpecCb == InitCb /\ [][NextCb]_vars

-----------------------------------------------------------------------------
(* preparePath (lines 53-90) over the directory results/algoX/clusters/ *)

\* the path of the entry n of results/algoX/clusters/
entryPath(n) == clsbaseOf(Str_algoX, n)

\* os.path.exists(taskpath)
pathExists(taskpath) == \E n \in DOMAIN clusters : entryPath(n) = taskpath

\* benchutils.dirempty(taskpath) for an existing directory
dirempty(taskpath) == \A n \in DOMAIN clusters : entryPath(n) = taskpath => clusters[n].files = {}

\* line 64 without the emptiness test
needsBackup_ifExists(taskpath) == pathExists(taskpath)

\* line 64: existent data is to be moved to the backup
needsBackup(taskpath) == pathExists(taskpath) /\ ~dirempty(taskpath)

\* nameTrunc that cuts at the first occurrence of a separator
nameTrunc_first(name) ==
  LET name1 == splitext(name)[1]
      pos == {x \in {Find(name1, <<SEPINST>>), Find(name1, <<SEPPARS>>)} : x >= 1}
  IN IF pos # {} THEN PySlice(name1, 0, SetMin(pos)) ELSE name1

\* nameTrunc that cuts at the rightmost of the last occurrences
nameTrunc_max(name) ==
  LET name1 == splitext(name)[1]
      pos == {x \in {Rfind(name1, SEPINST), Rfind(name1, SEPPARS)} : x >= 1}
  IN IF pos # {} THEN PySlice(name1, 0, SetMax(pos)) ELSE name1

\* nameTrunc that also counts a separator at index 0
nameTrunc_fromZero(name) ==
  LET name1 == splitext(name)[1]
      pos == {x \in {Rfind(name1, SEPINST), Rfind(name1, SEPPARS)} : x >= 0}
  IN IF pos # {} THEN PySlice(name1, 0, SetMin(pos)) ELSE name1

\* lines 69-74: the name without its extension, cut at the separator
nameTrunc(name) ==
  LET name1 == splitext(name)[1]
      pos == {x \in {Rfind(name1, SEPINST), Rfind(name1, SEPPARS)} : x >= 1}
  IN IF pos # {} THEN PySlice(name1, 0, SetMin(pos)) ELSE name1

\* lines 77-86: mainpath without the ending of an instance
instanceStrip(mainpath) ==
  LET i == Rfind(mainpath, SEPINST)
  IN IF i # -1 /\ IsInt(PyFrom(mainpath, i + 1)) THEN PySlice(mainpath, 0, i) ELSE mainpath

\* lines 66-86: the base path handed to backupPath
mainpathOf(taskpath) ==
  LET head == split(taskpath)[1]
      name0 == split(taskpath)[2]
      joined == IF name0 # <<>> THEN Join2(<<"/">>, head, nameTrunc(name0)) ELSE head
  IN instanceStrip(joined)

\* benchutils.backupPath(basepath, expand=True): the entries it moves aside,
\* every path that starts with basepath
backupMoves(basepath) == {n \in DOMAIN clusters : StartsWith(entryPath(n), basepath)}

preparePath(taskpath) ==
  /\ LET moved == IF needsBackup(taskpath) THEN backupMoves(mainpathOf(taskpath)) ELSE {}
         kept == [n \in DOMAIN clusters \ moved |-> clusters[n]]
         name == split(taskpath)[2]
         after == IF \E n \in DOMAIN kept : entryPath(n) = taskpath
                  THEN kept
                  ELSE [n \in DOMAIN kept \cup {name} |->
                          IF n = name THEN [isdir |-> TRUE, files |-> {}] ELSE kept[n]]
     IN /\ clusters' = after
        /\ backups' = IF moved # {}
                      THEN Append(backups, [base |-> mainpathOf(taskpath), moved |-> moved])
                      ELSE backups
        /\ preplog' = Append(preplog,
             [op |-> "prepare", path |-> taskpath,
              pre |-> IF ~pathExists(taskpath) THEN "absent"
                      ELSE IF dirempty(taskpath) THEN "empty" ELSE "nonempty",
              backup |-> moved # {},
              isdir |-> name \in DOMAIN after /\ after[name].isdir])
  /\ UNCHANGED evalvars

\* a job started after preparePath writes its result file into its directory
writeResult(n) ==
  /\ n \in DOMAIN clusters
  /\ clusters[n].isdir
  /\ LevelFile(n) \notin clusters[n].files
  /\ clusters' = [clusters EXCEPT ![n].files = @ \cup {LevelFile(n)}]
  /\ preplog' = Append(preplog,
       [op |-> "write", path |-> entryPath(n), pre |-> "", backup |-> FALSE, isdir |-> TRUE])
  /\ UNCHANGED backups
  /\ UNCHANGED evalvars

P_plain == Str_net1K
P_k3 == Str_net1K \o <<"!","k","3">>
P_k4 == Str_net1K \o <<"!","k","4">>
P_inst == Str_net1K \o <<"^","1">>
PrepNames == {P_plain, P_k3, P_k4, P_inst}

PrepLayouts ==
  { Layout({}, {}, {}),
    Layout({P_k3, P_k4}, {P_k3 \o <<".","l","o","g">>}, {}),
    Layout({P_plain, P_inst}, {}, {}),
    Layout({P_k4}, {}, {}) }

NumPrepared == Cardinality({i \in 1..Len(preplog) : preplog[i].op = "prepare"})

InitPrep == InitIn(PrepLayouts)

NextPrep ==
  \/ NumPrepared < MaxPrep /\ \E n \in PrepNames : preparePath(entryPath(n))
  \/ \E n \in PrepNames : writeResult(n)

SpecPrep == InitPrep /\ [][NextPrep]_vars

-----------------------------------------------------------------------------
(* Decoding of arbitrary names: results/algoX/clusters/ holds one non-empty
   directory whose name is any text over the characters the conventions give
   a meaning to; it is prepared by preparePath and then evaluated against the
   base file a.cnl *)

MaxNameLen == 3

NameChars == {"a", "1", "^", "!", ".", "#"}

\* the texts of length 1..k over NameChars
NamesUpTo(k) == UNION {[1..l -> NameChars] : l \in 1..k}

\* the directory names among them ('.' and '..' are not names of entries)
DecodeNames == NamesUpTo(MaxNameLen) \ {<<".">>, <<".", ".">>}

Str_a == <<"a">>
Str_acnl == Str_a \o Str_cnl

\* evaluations of a.cnl by modularity, without and with the path-id '#1'
NameArgs == {<<TRUE, Str_algoX, Str_acnl, Str_mod, p>> : p \in {<<>>, <<"#","1">>}}

InitNames == InitIn({Layout({n}, {}, {}) : n \in DecodeNames})

NextNames ==
  \/ /\ nruns = 0 /\ NumPrepared < MaxPrep
     /\ \E n \in DOMAIN clusters : preparePath(entryPath(n))
  \/ nruns < MaxRuns /\ \E a \in NameArgs : evalAlgorithm(a[1], a[2], a[3], a[4], a[5])
  \/ \E cn \in todo : \E order \in Orders(resultFiles(cn)) : scanGroup(cn, order)
  \/ noJobs
  \/ \E ok \in BOOLEAN : submitJob(ok)
  \/ \E job \in pool, result \in Outputs : aggLevs(job, result)

SpecNames == InitNames /\ [][NextNames]_vars

-----------------------------------------------------------------------------
(* Base-name extraction of preparePath for arbitrary task names:
   results/algoX/clusters/ holds one non-empty directory, on which preparePath
   is called repeatedly *)

MaxPathLen == 5

PathChars == {"a", "1", "^", "!", "."}

\* the texts of length 1..k over PathChars
PathsUpTo(k) == UNION {[1..l -> PathChars] : l \in 1..k}

PathNames == PathsUpTo(MaxPathLen) \ {<<".">>, <<".", ".">>}

InitPaths == InitIn({Layout({n}, {}, {}) : n \in PathNames})

NextPaths ==
  NumPrepared < MaxPrep /\ \E n \in DOMAIN clusters : preparePath(entryPath(n))

SpecPaths == InitPaths /\ [][NextPaths]_vars

-----------------------------------------------------------------------------
(* Vocabulary of the properties *)

\* the group directory a job's evaluated file lies in
jobGroup(job) == split(split(job.cfile)[1])[2]

\* the jobs of the current list built for files of the group g
jobsFor(g) == {i \in 1..Len(jobs) : jobGroup(jobs[i]) = g}

\* the current call passed validation and its loop has enumerated the group
\* directory g
Scanned(g) ==
  /\ outcome \in {"running", "returned", "UnboundLocalError"}
  /\ g \in candidates(call.taskcapt) \ todo
  /\ clusters[g].isdir

\* the current call passed validation and its loop is over
ScanOver == outcome \in {"running", "returned", "UnboundLocalError"} /\ todo = {} /\ pc # "scan"

\* the name g is longer than the task caption and continues with character c
NextCharIs(g, c) == Len(g) > Len(call.taskcapt) /\ g[Len(call.taskcapt) + 1] = c

\* g ends in '#' followed by digits; PidOf(g) is that suffix
HasDigitPid(g) ==
  LET i == Rfind(g, "#")
  IN i # -1 /\ i + 1 < Len(g) /\ AllDigits(PyFrom(g, i + 1))
PidOf(g) == PyFrom(g, Rfind(g, "#"))

Path_net1K_mod ==
  <<"r","e","s","u","l","t","s","/","a","l","g","o","X","/","m","o","d","/",
    "n","e","t","1","K",".","m","o","d">>

\* the current call is evalAlgorithm(pool, 'algoX', 'net1K.cnl', 'mod'), made
\* while no job of an earlier call was pending, and it has returned
ModScenarioReturned ==
  /\ call.evalname = Str_mod /\ call.algname = Str_algoX
  /\ call.basefile = Str_cnlfile /\ call.pathid = <<>>
  /\ call.clean
  /\ outcome = "returned" /\ pc = "idle"

\* two jobs were built for one task, both target results/algoX/mod/net1K.mod,
\* and once both have recorded a value the file is a header row followed by
\* two value rows captioned 'l0' and '1_l0'
ModScenarioResult ==
  /\ Len(jobs) = 2
  /\ \A i \in 1..Len(jobs) : jobs[i].task = call.task /\ jobs[i].taskoutp = Path_net1K_mod
  /\ {jobs[i].id : i \in 1..Len(jobs)} \subseteq accepted
       => /\ Path_net1K_mod \in DOMAIN files
          /\ LET f == files[Path_net1K_mod]
             IN /\ Len(f) = 3
                /\ f[1].hdr /\ ~f[2].hdr /\ ~f[3].hdr
                /\ {f[2].capt, f[3].capt} = {Str_l0, <<"1","_">> \o Str_l0}

-----------------------------------------------------------------------------
(* C1 *)

\* C1 as stated: no job is ever built for a group whose name continues the
\* task caption with a character other than the instance separator '^'
C1_AsStated ==
  \A i \in 1..Len(jobs) :
    LET g == jobGroup(jobs[i])
    IN ~(StartsWith(g, call.taskcapt) /\ Len(g) > Len(call.taskcapt)
         /\ g[Len(call.taskcapt) + 1] # SEPINST)

\* C1 (amended): an enumerated group whose name continues the task caption is
\* rejected exactly when the next character IS the instance separator '^': no
\* job is built for it; when the next character is anything else the group is
\* kept by this filter, so that with no path-id involved a job is built for
\* each of its result files (base 'net1K' does build jobs for 'net1K2')
C1_InstanceFilter ==
  \A g \in DOMAIN clusters :
    (Scanned(g) /\ Len(g) > Len(call.taskcapt)) =>
      IF NextCharIs(g, SEPINST) THEN jobsFor(g) = {}
      ELSE (call.pathid = <<>> /\ Rfind(g, "#") = -1)
             => Cardinality(jobsFor(g)) = Cardinality(resultFiles(g))

C1_Witness ==
  /\ Scanned(G_other) /\ Scanned(G_inst)
  /\ jobsFor(G_other) # {} /\ jobsFor(G_inst) = {}

-----------------------------------------------------------------------------
(* C2 *)

\* C2 as stated: a group ending in '#' + digits gets jobs when the call's
\* pathid is exactly that suffix, and no job under any other pathid
C2_AsStated ==
  \A g \in DOMAIN clusters :
    (Scanned(g) /\ HasDigitPid(g)) =>
      /\ call.pathid = PidOf(g) => jobsFor(g) # {}
      /\ call.pathid # PidOf(g) => jobsFor(g) = {}

\* C2 (amended): for an enumerated group ending in '#' + digits, called with
\* exactly that pathid a job is built for each of its result files unless the
\* character after the task caption is '^' (the instance filter then rejects
\* it); called with another pathid or with none, no job is built for it; and
\* a call with a pathid builds no job for a group not ending in that pathid
C2_PathIdFilter ==
  \A g \in DOMAIN clusters :
    Scanned(g) =>
      /\ (HasDigitPid(g) /\ call.pathid = PidOf(g) /\ ~NextCharIs(g, SEPINST))
           => Cardinality(jobsFor(g)) = Cardinality(resultFiles(g))
      /\ (HasDigitPid(g) /\ call.pathid # PidOf(g)) => jobsFor(g) = {}
      /\ (call.pathid # <<>> /\ ~EndsWith(g, call.pathid)) => jobsFor(g) = {}

C2_Witness ==
  /\ ScanOver /\ call.pathid = <<"#","2">>
  /\ Scanned(G_p2) /\ Scanned(G_p3) /\ Scanned(G_plain)
  /\ jobsFor(G_p2) # {} /\ jobsFor(G_p3) = {} /\ jobsFor(G_plain) = {}

-----------------------------------------------------------------------------
(* C3 *)

-----------------------------------------------------------------------------
(* C4 *)

\* the base of a group that is a shuffle of a network: the name without its
\* trailing '.digits' and with the call's path-id put back; <<>> otherwise
ShuffleBase(g) ==
  LET core == PySlice(g, 0, Len(g) - Len(call.pathid))
      i == Rfind(core, ".")
  IN IF EndsWith(g, call.pathid) /\ i >= 1 /\ i + 1 < Len(core) /\ AllDigits(PyFrom(core, i + 1))
     THEN PySlice(core, 0, i) \o call.pathid
     ELSE <<>>

\* a non-empty file starts with a header row and holds no other header row
OneHeaderFirst(f) ==
  /\ Len(f) >= 1
  /\ f[1].hdr
  /\ \A k \in 2..Len(f) : ~f[k].hdr

-----------------------------------------------------------------------------
(* C6 *)

\* the captured output is malformed for the measure: no 'mod: ' prefix for a
\* modularity job, not a float literal for an NMI or NMI-sum job
Malformed(meas, out) ==
  IF meas = Str_mod THEN ~StartsWith(out, <<"m","o","d",":"," ">>)
  ELSE out \in {Out_mod, Out_bad}

\* C6: a completion callback whose captured output is malformed appends no row
\* and no header, creates no accumulation file and leaves an existing one
\* unchanged, and touches no directory
C6_MalformedRecordsNothing ==
  [][\A job \in pool :
       (job \notin pool' /\ cb'.id = job.id /\ Malformed(job.meas, cb'.out))
         => (files' = files /\ dirs' = dirs /\ accepted' = accepted)]_vars

\* the callback of a job of the current call has consumed a malformed output
\* and the job's accumulation file does not exist
C6_Witness ==
  /\ cb.id[1] = call.run /\ cb.id[1] > 0 /\ cb.id[2] <= Len(jobs)
  /\ Malformed(jobs[cb.id[2]].meas, cb.out)
  /\ cb.id \notin accepted
  /\ jobs[cb.id[2]].taskoutp \notin DOMAIN files

-----------------------------------------------------------------------------
(* C7 *)

\* C7 as stated: a valid call that built no job prints the warning naming the
\* algorithm and the group and returns normally
C7_AsStated ==
  (pc = "idle" /\ outcome \in {"returned", "UnboundLocalError"} /\ jobs = <<>>)
    => /\ outcome = "returned"
       /\ \E w \in warns : w.kind = "nojobs" /\ w.alg = call.algname

-----------------------------------------------------------------------------
(* C8 *)

\* C8: while evalGeneric submits, the jobs passed to execpool.execute are the
\* first isub jobs of the list, once each and in list order, and when it
\* returns every job of the list has been passed, whichever submissions failed
C8_BestEffortSubmission ==
  /\ (pc = "submit" \/ outcome = "returned")
       => execlog = [i \in 1..isub |-> jobs[i].id]
  /\ (outcome = "returned" /\ pc = "idle") => isub = Len(jobs)

\* the call returned after the submission of the first of two jobs failed
C8_Witness ==
  /\ outcome = "returned" /\ pc = "idle"
  /\ Len(jobs) = 2 /\ Len(execlog) = 2
  /\ jobs[1] \notin pool /\ jobs[1].id \notin accepted /\ cb.id # jobs[1].id
  /\ \E w \in warns : w.kind = "submit" /\ w.what = jobs[1].name
  /\ jobs[2] \in pool

-----------------------------------------------------------------------------
(* C9 *)

\* the request is structurally invalid: an empty required argument, a pathid
\* without its separator, an unknown measure or a shuffled base file
InvalidRequest(c) ==
  \/ ~c.poolok
  \/ c.basefile = <<>> \/ c.evalname = <<>> \/ c.algname = <<>>
  \/ (c.pathid # <<>> /\ c.pathid[1] # "#")
  \/ c.evalname \notin {Str_mod, Str_nmi, Str_nmi_s}
  \/ Rfind(splitext(split(c.basefile)[2])[1], ".") >= 1

\* C9: a call with a structurally invalid request raises at once: no job is
\* built or submitted and no directory or file is created or deleted
C9_FailFast ==
  [][(pc = "idle" /\ nruns' = nruns + 1 /\ InvalidRequest(call'))
       => /\ outcome' \in {"AssertionError", "ValueError"}
          /\ pc' = "idle"
          /\ jobs' = <<>> /\ execlog' = <<>>
          /\ UNCHANGED <<clusters, dirs, files, pool, ldpath>>]_vars

\* a call given a shuffled base file has raised
C9_Witness ==
  /\ outcome = "AssertionError" /\ pc = "idle"
  /\ call.basefile = Str_shuffled /\ call.poolok /\ call.algname # <<>>
  /\ jobs = <<>>

-----------------------------------------------------------------------------
(* C5 *)

\* the current call is a later run that began when every job of the earlier
\* runs had completed, it has returned and all its own jobs have completed
RerunComplete ==
  /\ call.run >= 2 /\ call.clean
  /\ outcome = "returned" /\ pc = "idle" /\ pool = {}

IsPrefix(a, b) == Len(a) <= Len(b) /\ SubSeq(b, 1, Len(a)) = a

C5_WitnessAppend ==
  /\ RerunComplete /\ ~call.tidy
  /\ Len(jobs) = 1 /\ jobs[1].taskoutp \in DOMAIN snap
  /\ Len(snap[jobs[1].taskoutp]) = 2
  /\ Len(files[jobs[1].taskoutp]) = 3

-----------------------------------------------------------------------------
(* C10 *)

\* the i-th and the next logged operation are preparePath calls on one path,
\* the first of them on an existing non-empty path
TwiceInARow(i) ==
  /\ i + 1 <= Len(preplog)
  /\ preplog[i].op = "prepare" /\ preplog[i + 1].op = "prepare"
  /\ preplog[i].path = preplog[i + 1].path
  /\ preplog[i].pre = "nonempty"

\* C10: when preparePath is called twice in a row on the same existing
\* non-empty path, the first call performs a backup, the second performs
\* none, and after each call the path exists as a directory
C10_BackupOnce ==
  \A i \in 1..Len(preplog) :
    TwiceInARow(i) =>
      /\ preplog[i].backup /\ ~preplog[i + 1].backup
      /\ preplog[i].isdir /\ preplog[i + 1].isdir

C10_Witness ==
  /\ TwiceInARow(1)
  /\ Len(backups) = 1
  /\ preplog[2].pre = "empty"

-----------------------------------------------------------------------------
(* C11 *)

\* the i-th logged operation is a preparePath call
IsPrepare(i) == preplog[i].op = "prepare"

\* the preparePath calls made so far are for pairwise different variants
DistinctPrepares ==
  \A i, j \in 1..Len(preplog) :
    (i < j /\ IsPrepare(i) /\ IsPrepare(j)) => preplog[i].path # preplog[j].path

\* the preparePath calls that performed a backup
BackingCalls == {i \in 1..Len(preplog) : IsPrepare(i) /\ preplog[i].backup}

\* the entries moved aside by the backup of the call i
MovedBy(i) == backups[Cardinality({j \in BackingCalls : j <= i})].moved

\* the directories created by the preparePath calls made before the call i
CreatedBefore(i) ==
  {preplog[j].path : j \in {k \in 1..(i - 1) : IsPrepare(k) /\ preplog[k].pre = "absent"}}

\* C11 as stated: over a sequence of preparePath calls for different variants
\* of one base network, interleaved with result writes of the started jobs, at
\* most one call performs a backup and no backup moves a directory that an
\* earlier call of the sequence created
C11_AsStated ==
  DistinctPrepares =>
    /\ Cardinality(BackingCalls) <= 1
    /\ \A i \in BackingCalls :
         \A n \in MovedBy(i) : entryPath(n) \notin CreatedBefore(i)

\* the first half of C11 alone: at most one call of such a sequence backs up
C11_AtMostOneBackup == DistinctPrepares => Cardinality(BackingCalls) <= 1

-----------------------------------------------------------------------------
(* C12 *)

\* the base path the backing call i handed to backupPath
BaseBy(i) == backups[Cardinality({j \in BackingCalls : j <= i})].base

\* n is base + '^' + text with a non-empty base and a non-empty text without
\* separator or dot which int() rejects: a malformed instance suffix
MalformedInstance(n) ==
  LET i == Rfind(n, SEPINST)
      text == PyFrom(n, i + 1)
  IN /\ i >= 1 /\ text # <<>>
     /\ \A k \in 1..Len(text) : text[k] \notin {SEPINST, SEPPARS, "."}
     /\ \A k \in 1..i : n[k] \notin {SEPINST, SEPPARS, "."}
     /\ ~IsInt(text)

\* the group g of a call without path-id ends in '#' + text (after an optional
\* file marker) which int() rejects: a malformed path-id suffix
MalformedPathId(g) ==
  LET i == Rfind(g, "#")
  IN /\ call.pathid = <<>>
     /\ i # -1 /\ i + 1 < Len(g)
     /\ ~IsInt(PyFrom(g, IF g[i + 2] = PATHID_FILE THEN i + 2 ELSE i + 1))

\* the text of the group g between its last dot and the call's path-id is not
\* empty and int() rejects it: a malformed shuffle suffix
MalformedShuffle(g) ==
  /\ EndsWith(g, call.pathid)
  /\ rawShuffle(g, call.pathid) # <<>>
  /\ ~IsInt(rawShuffle(g, call.pathid))

\* the evaluator's half of C12: an enumerated group with a malformed path-id
\* or shuffle suffix is warned about and, unless the instance filter rejects
\* it, a job is built for each of its result files; with a malformed shuffle
\* the accumulation file keeps the whole group name; the call raises nothing
C12_EvaluatorTolerant ==
  /\ precondition(call.poolok, call.algname, call.basefile, call.evalname, call.pathid) = "none"
       => outcome \notin {"ValueError", "IndexError", "TypeError", "AssertionError"}
  /\ \A g \in DOMAIN clusters :
       (Scanned(g) /\ ~instanceSkips(g, Len(call.taskcapt))) =>
         /\ MalformedPathId(g) =>
              /\ Cardinality(jobsFor(g)) = Cardinality(resultFiles(g))
              /\ \E w \in warns : w.kind = "pathid" /\ w.what = g
         /\ (MalformedShuffle(g) /\ ~pathidSkips(g, call.pathid)) =>
              /\ Cardinality(jobsFor(g)) = Cardinality(resultFiles(g))
              /\ \E w \in warns : w.kind = "shuffle" /\ w.what = g
              /\ \A i \in jobsFor(g) :
                   jobs[i].taskoutp =
                     Join2(<<".">>, logsbaseOf(clsbaseOf(call.algname, g), call.measdir),
                           call.evalname)

\* C12 as stated: decoding raises for no name; a malformed path-id or shuffle
\* suffix of a group is treated as absent and the group is processed; and a
\* malformed instance suffix of a task path stays part of the base name that
\* preparePath extracts
C12_AsStated ==
  /\ C12_EvaluatorTolerant
  /\ \A i \in BackingCalls :
       MalformedInstance(split(preplog[i].path)[2]) => BaseBy(i) = preplog[i].path

-----------------------------------------------------------------------------
(* C13 *)

\* n is base + '^' + digits with a non-empty base; InstBase(n) is that base
IsInstanceName(n) ==
  LET i == Rfind(n, SEPINST)
  IN i >= 1 /\ i + 1 < Len(n) /\ AllDigits(PyFrom(n, i + 1))
InstBase(n) == PySlice(n, 0, Rfind(n, SEPINST))

\* the text b has no params separator, no dot, and does not itself end in
\* '^' followed by a text int() accepts
PlainBase(b) ==
  /\ \A k \in 1..Len(b) : b[k] \notin {SEPPARS, "."}
  /\ ~(Rfind(b, SEPINST) # -1 /\ IsInt(PyFrom(b, Rfind(b, SEPINST) + 1)))

\* C13 as stated: for every task name base + '^' + digits with a non-empty
\* base, the base path preparePath hands to backupPath is the path of base
C13_AsStated ==
  \A i \in BackingCalls :
    LET n == split(preplog[i].path)[2]
    IN IsInstanceName(n) => BaseBy(i) = entryPath(InstBase(n))

\* C13 (amended): for every task name base + '^' + digits whose non-empty base
\* holds no '!' and no '.' and does not itself end in '^' + integer, the base
\* path handed to backupPath is the path of base: exactly the trailing
\* '^digits' is removed
C13_InstanceRoundTrip ==
  \A i \in BackingCalls :
    LET n == split(preplog[i].path)[2]
    IN (IsInstanceName(n) /\ PlainBase(InstBase(n))) => BaseBy(i) = entryPath(InstBase(n))

\* the directory a^a^1 was backed up under the base a^a
C13_Witness ==
  /\ Len(preplog) >= 1 /\ IsPrepare(1) /\ preplog[1].backup
  /\ split(preplog[1].path)[2] = <<"a", "^", "a", "^", "1">>
  /\ backups[1].base = entryPath(<<"a", "^", "a">>)

-----------------------------------------------------------------------------
(* C14 *)

\* the enumerated group g passed the path-id and the instance filter
Accepted(g) ==
  /\ Scanned(g)
  /\ ~pathidSkips(g, call.pathid)
  /\ ~instanceSkips(g, Len(call.taskcapt))

\* the names of the entries of the group g that are files
PlainFiles(g) == {f.name : f \in {e \in clusters[g].files : ~e.isdir}}

\* the paths of the files of the accepted groups
AcceptedFiles ==
  UNION {{clsbaseOf(call.algname, g) \o <<"/">> \o n : n \in PlainFiles(g)} :
           g \in {h \in DOMAIN clusters : Accepted(h)}}

\* C14: in one evalGeneric call, the jobs built so far are one for each file
\* of the accepted groups enumerated so far: as many jobs as such files, each
\* file the evaluated file of exactly one job, no job for a sub-directory of a
\* group, no two jobs with one id; the jobs passed to execute are passed once
\* each, and when the call returns every built job has been passed once
C14_OneJobPerFile ==
  (outcome \in {"running", "returned"}) =>
    /\ Len(jobs) = Cardinality(AcceptedFiles)
    /\ \A p \in AcceptedFiles : Cardinality({i \in 1..Len(jobs) : jobs[i].cfile = p}) = 1
    /\ \A i \in 1..Len(jobs) : jobs[i].cfile \in AcceptedFiles
    /\ \A i, j \in 1..Len(jobs) : jobs[i].id = jobs[j].id => i = j
    /\ \A i, j \in 1..Len(execlog) : execlog[i] = execlog[j] => i = j
    /\ \A i \in 1..Len(execlog) : \E j \in 1..Len(jobs) : jobs[j].id = execlog[i]
    /\ outcome = "returned" =>
         \A j \in 1..Len(jobs) :
           Cardinality({i \in 1..Len(execlog) : execlog[i] = jobs[j].id}) = 1

\* the call over a group holding two result files and the sub-directory
\* extra/ returned with two jobs, each passed to execute
C14_Witness ==
  /\ outcome = "returned" /\ pc = "idle"
  /\ DOMAIN clusters = {G_plain}
  /\ ExtraDir \in clusters[G_plain].files
  /\ Len(jobs) = 2 /\ Len(execlog) = 2

-----------------------------------------------------------------------------
(* C15 *)

\* the value rows of the file f, in file order
RECURSIVE ValueRows(_)
ValueRows(f) ==
  IF f = <<>> THEN <<>>
  ELSE IF f[1].hdr THEN ValueRows(Tail(f)) ELSE <<f[1]>> \o ValueRows(Tail(f))

\* the ids in the sequence ids of the jobs of the current call that target p
RECURSIVE FinishedFor(_, _)
FinishedFor(ids, p) ==
  IF ids = <<>> THEN <<>>
  ELSE IF \E i \in 1..Len(jobs) : jobs[i].id = ids[1] /\ jobs[i].taskoutp = p
       THEN <<ids[1]>> \o FinishedFor(Tail(ids), p)
       ELSE FinishedFor(Tail(ids), p)

\* the caption of the job of the current call with the given id
SuffOf(id) == jobs[id[2]].jobsuff

\* every value row of every accumulation file targeted by the current call is
\* the complete row of one finished callback, one row per callback, in the
\* order in which the callbacks finished
RowsInCompletionOrder ==
  \A p \in {jobs[i].taskoutp : i \in 1..Len(jobs)} :
    LET ids == FinishedFor(finished, p)
        rows == IF p \in DOMAIN files THEN ValueRows(files[p]) ELSE <<>>
    IN /\ Len(rows) = Len(ids)
       /\ \A k \in 1..Len(ids) :
            rows[k].capt = SuffOf(ids[k]) /\ rows[k].run = ids[k][1] /\ rows[k].val.ok

\* C15 as stated: whatever the interleaving of the callbacks of the jobs of
\* one task, every job whose output parsed contributes one complete row, no
\* row is lost, the rows are in completion order, and the header check is not
\* corrupted: a file with rows holds exactly one header, as its first row
C15_AsStated ==
  (nruns = 1 /\ outcome = "returned") =>
    /\ RowsInCompletionOrder
    /\ \A p \in DOMAIN files : (running = {} /\ files[p] # <<>>) => OneHeaderFirst(files[p])

\* the rows' half of C15 alone
C15_RowsOnly == (nruns = 1 /\ outcome = "returned") => RowsInCompletionOrder

-----------------------------------------------------------------------------
(* C16 *)

\* the character at the 0-based index i of s is c and c does not occur after it
LastOccurrence(s, c, i) ==
  /\ i >= 0 /\ i < Len(s)
  /\ s[i + 1] = c
  /\ \A j \in (i + 2)..Len(s) : s[j] # c

\* the indexes >= 1 that are the last occurrence of '^' or of '!' in s
CutPoints(s) ==
  {i \in 1..(Len(s) - 1) : LastOccurrence(s, SEPINST, i) \/ LastOccurrence(s, SEPPARS, i)}

\* C16: for every task name that preparePath coalesces, the extension-stripped
\* name is cut at the smallest index >= 1 that is the last occurrence of '^'
\* or of '!'; a name whose only separators are at index 0, or that has none,
\* is left as it is
C16_SeparatorTieBreak ==
  \A i \in BackingCalls :
    LET stem == splitext(split(preplog[i].path)[2])[1]
        cut == nameTrunc(split(preplog[i].path)[2])
    IN IF CutPoints(stem) = {}
       THEN cut = stem
       ELSE \E k \in CutPoints(stem) :
              /\ \A m \in CutPoints(stem) : k <= m
              /\ cut = SubSeq(stem, 1, k)

\* a^a!a was cut at its '^' (index 1), which lies before its '!' (index 3)
C16_Witness ==
  /\ Len(preplog) >= 1 /\ IsPrepare(1) /\ preplog[1].backup
  /\ split(preplog[1].path)[2] = <<"a", "^", "a", "!", "a">>
  /\ backups[1].base = entryPath(<<"a">>)

-----------------------------------------------------------------------------
(* C17 *)

\* the number of occurrences of the character c in s
Count(s, c) == Cardinality({k \in 1..Len(s) : s[k] = c})

HasSeparator(s) == Count(s, SEPINST) + Count(s, SEPPARS) > 0

-----------------------------------------------------------------------------
(* C18 *)

\* the step is made by a run of the measure nmi_s: the entry of its call, an
\* iteration or a submission of its evalGeneric call, or the completion
\* callback of one of its jobs
NmiSumStep ==
  \/ nruns' = nruns + 1 /\ call'.evalname = Str_nmi_s
  \/ pc \in {"scan", "submit"} /\ call.evalname = Str_nmi_s /\ pool \subseteq pool'
  \/ \E job \in pool : job \notin pool' /\ job.meas = Str_nmi_s

\* every directory, every log file in it and every accumulation file is
\* still there after the step, each accumulation file with its rows followed
\* by the appended ones
NothingDeleted ==
  /\ \A d \in DOMAIN dirs : d \in DOMAIN dirs' /\ dirs[d] \subseteq dirs'[d]
  /\ \A p \in DOMAIN files : p \in DOMAIN files' /\ IsPrefix(files[p], files'[p])

\* C18: no step of an evaluation run with tidy=False (the measure nmi_s), from
\* its call to the completion of its jobs, deletes a measure sub-directory, a
\* log file or an accumulation file or removes a row: it only creates missing
\* directories and appends rows
C18_NonTidyDeletesNothing == [][NmiSumStep => NothingDeleted]_vars

\* an nmi_s run made after an nmi run has completed: the sub-directory, the
\* log file and the rows left by the nmi run are still there, next to the row
\* of the nmi_s run
C18_Witness ==
  /\ call.evalname = Str_nmi_s /\ call.run = 2 /\ call.clean
  /\ outcome = "returned" /\ pc = "idle" /\ pool = {}
  /\ Len(jobs) = 1 /\ jobs[1].id \in accepted
  /\ \E p \in DOMAIN files :
       /\ p # jobs[1].taskoutp
       /\ Len(files[p]) = 2 /\ files[p][2].run = 1
  /\ Len(files[jobs[1].taskoutp]) = 2 /\ files[jobs[1].taskoutp][2].run = 2
  /\ dirOf(jobs[1].stderr) \in DOMAIN dirs
  /\ jobs[1].stderr \in dirs[dirOf(jobs[1].stderr)]

-----------------------------------------------------------------------------
(* C19 *)

\* the step removes an accumulation file, a measure sub-directory or a log
\* file of a sub-directory
Deletion ==
  \/ \E p \in DOMAIN files : p \notin DOMAIN files'
  \/ \E d \in DOMAIN dirs : d \notin DOMAIN dirs' \/ ~(dirs[d] \subseteq dirs'[d])

\* the file p holds a row appended by a job of the current call
HoldsOwnRow(p) == \E k \in 1..Len(files[p]) : files[p][k].run = call.run

\* C19: a step that deletes an accumulation file or a measure sub-directory
\* is made before the first execute of its call, and as long as the call is
\* the current one no file holding a row appended by one of its jobs is
\* removed or loses a row, also when two shuffles share the file
C19_TidyBeforeExecute ==
  [][/\ Deletion => (pc = "scan" /\ execlog = <<>> /\ execlog' = <<>>)
     /\ \A p \in DOMAIN files :
          (nruns' = nruns /\ HoldsOwnRow(p))
            => (p \in DOMAIN files' /\ IsPrefix(files[p], files'[p]))]_vars

\* the second modularity run over the two shuffles deleted the shared file of
\* the first run while scanning, then submitted both jobs, and the file holds
\* the header and the two rows of the second run
C19_Witness ==
  /\ call.run = 2 /\ call.tidy /\ outcome = "returned" /\ pc = "idle"
  /\ Len(jobs) = 2 /\ jobs[1].taskoutp = jobs[2].taskoutp
  /\ jobs[1].taskoutp \in tidied
  /\ Len(execlog) = 2
  /\ {jobs[1].id, jobs[2].id} \subseteq accepted
  /\ jobs[1].taskoutp \in DOMAIN files
  /\ Len(files[jobs[1].taskoutp]) = 3
  /\ \A k \in 1..3 : files[jobs[1].taskoutp][k].run = 2

-----------------------------------------------------------------------------
(* C20 *)

\* the jobs built by the current call and the jobs the pool still runs
LiveJobs == pool \cup {jobs[i] : i \in 1..Len(jobs)}

\* C20: jobs of evaluations of different base files never target the same
\* accumulation file (algorithm and measure are the same, and jobs are built
\* only for the empty path-id, so that task names differ by the base only)
C20_AsStated ==
  \A j1, j2 \in LiveJobs : j1.task # j2.task => j1.taskoutp # j2.taskoutp

====
